---- MODULE Spec2Model ----
(***************************************************************************)
(* A model of gwiki's page layer (main.go): the Page type with its typed   *)
(* accessors over the front-matter mapping, LoadPage, Page.Save and the    *)
(* save/edit/view handlers, over a one-file content store.                 *)
(*                                                                         *)
(* Go strings are sequences of one-character strings.  Stored bytes are    *)
(* sequences of byte records: [c |-> ch] is the byte ch, [meta |-> m] is   *)
(* the encoded payload lines of the metadata mapping m.                    *)
(* Go values of type interface{} are tagged records [t |-> kind, v |-> x]. *)
(***************************************************************************)
EXTENDS Integers, Sequences, FiniteSets, TLC

\* file: the stored document of the one path; page: the *Page a caller holds;
\* ret: the last operation, its argument and what it returned; hist: what the last
\* LoadPage returned and how many Saves the run has made.
VARIABLES file, page, ret, hist

vars == <<file, page, ret, hist>>

\* ------------------------------------------------------------------ bounds

\* Longest argument of SetTags the model enumerates.
MaxTagsLen == 3
\* Longest body a form submits.
MaxBodyLen == 1
\* Days the clock can advance.
MaxTicks == 1
\* Save calls in one run.
MaxSaves == 1
\* Bytes a failing Write gets out.
MaxPartial == 1

\* --------------------------------------------------------- the Go values

StringVal(s) == [t |-> "string", v |-> s]
BoolVal(b) == [t |-> "bool", v |-> b]
IntVal(n) == [t |-> "int", v |-> n]
\* time.Time: a calendar day and an hour of that day.
TimeVal(y, m, d, h) == [t |-> "time", v |-> [y |-> y, m |-> m, d |-> d, h |-> h]]
\* []string
StringsVal(ss) == [t |-> "[]string", v |-> ss]
\* []interface{}
InterVal(es) == [t |-> "[]interface{}", v |-> es]

\* The three front-matter marks, and the zero rune of a Page literal.
Marks == {"-", "+", "{"}
ZeroRune == "NUL"

Keys == {"title", "description", "date", "tags", "language", "draft"}

\* map[string]interface{}: nil is TRUE for Go's nil map, which reads as empty.
NilMap == [nil |-> TRUE, kv |-> <<>>]
MakeMap(kv) == [nil |-> FALSE, kv |-> kv]
EmptyMap == MakeMap(<<>>)
Has(m, key) == key \in DOMAIN m.kv
\* m[key] = val on a non-nil map.
Store(m, key, val) ==
  MakeMap([k \in (DOMAIN m.kv) \cup {key} |-> IF k = key THEN val ELSE m.kv[k]])

\* ------------------------------------------------------- string helpers

Digits == <<"0", "1", "2", "3", "4", "5", "6", "7", "8", "9">>
IsDigit(c) == \E i \in 1..10 : Digits[i] = c
DigitOf(c) == (CHOOSE i \in 1..10 : Digits[i] = c) - 1
CharOf(n) == Digits[n + 1]

RECURSIVE Itoa(_)
Itoa(n) == IF n < 10 THEN <<CharOf(n)>> ELSE Itoa(n \div 10) \o <<CharOf(n % 10)>>

RECURSIVE JoinQuoted(_)
JoinQuoted(ss) ==
  IF ss = <<>> THEN <<>>
  ELSE <<"\"">> \o Head(ss) \o <<"\"">>
       \o (IF Len(ss) > 1 THEN <<",", " ">> ELSE <<>>) \o JoinQuoted(Tail(ss))

\* "no string: " and "No_string_slice:", the placeholders of getString and Tags.
NoStringPrefix == <<"n", "o", " ", "s", "t", "r", "i", "n", "g", ":", " ">>
NoStringSlicePrefix ==
  <<"N", "o", "_", "s", "t", "r", "i", "n", "g", "_", "s", "l", "i", "c", "e", ":">>
TrueText == <<"t", "r", "u", "e">>
FalseText == <<"f", "a", "l", "s", "e">>

\* fmt's %s of one value: a string prints as itself, any other kind as %!s(kind=value).
SprintfS(e) ==
  CASE e.t = "string" -> e.v
    [] e.t = "int" -> <<"%", "!", "s", "(", "i", "n", "t", "=">> \o Itoa(e.v) \o <<")">>
    [] e.t = "bool" -> <<"%", "!", "s", "(", "b", "o", "o", "l", "=">>
                       \o (IF e.v THEN TrueText ELSE FalseText) \o <<")">>
    [] OTHER -> <<"%", "!", "s", "(", "?", ")">>

\* fmt's %#v of one value (Go syntax); a time.Time prints as its layout-independent fields.
GoSyntax(x) ==
  CASE x.t = "string" -> <<"\"">> \o x.v \o <<"\"">>
    [] x.t = "int" -> Itoa(x.v)
    [] x.t = "bool" -> IF x.v THEN TrueText ELSE FalseText
    [] x.t = "[]string" ->
         <<"[", "]", "s", "t", "r", "i", "n", "g", "{">> \o JoinQuoted(x.v) \o <<"}">>
    [] OTHER -> <<"(", x.t, ")">>

\* -------------------------------------------------------------- package time

IsLeap(y) == (y % 4 = 0) /\ ((y % 100 # 0) \/ (y % 400 = 0))
daysIn(m, y) ==
  IF m = 2 THEN (IF IsLeap(y) THEN 29 ELSE 28)
  ELSE IF m \in {4, 6, 9, 11} THEN 30 ELSE 31

Pad2(n) == <<CharOf(n \div 10), CharOf(n % 10)>>
Pad4(n) == <<CharOf(n \div 1000), CharOf((n \div 100) % 10)>> \o Pad2(n % 100)

\* t.Format(DateFormat), DateFormat = "2006-01-02": the day of t, its hour dropped.
FormatDate(tv) == Pad4(tv.y) \o <<"-">> \o Pad2(tv.m) \o <<"-">> \o Pad2(tv.d)

Num2(s, i) == 10 * DigitOf(s[i]) + DigitOf(s[i + 1])
\* time.Parse(DateFormat, d): four digits, '-', two digits, '-', two digits and
\* nothing else, the month in 1..12 and the day a day of that month; midnight UTC.
ParseOk(d) ==
  /\ Len(d) = 10
  /\ \A i \in {1, 2, 3, 4, 6, 7, 9, 10} : IsDigit(d[i])
  /\ d[5] = "-" /\ d[8] = "-"
  /\ Num2(d, 6) \in 1..12
  /\ Num2(d, 9) >= 1
  /\ Num2(d, 9) <= daysIn(Num2(d, 6), 100 * Num2(d, 1) + Num2(d, 3))
ParseDate(d) == TimeVal(100 * Num2(d, 1) + Num2(d, 3), Num2(d, 6), Num2(d, 9), 0)

\* ----------------------------------------------------------- package strings

IsSpace(c) == c \in {" ", "\t", "\n", "\r"}

\* strings.Fields: the maximal runs of non-space characters, in order.
RECURSIVE FieldsFrom(_, _, _)
FieldsFrom(s, i, cur) ==
  IF i > Len(s) THEN (IF cur = <<>> THEN <<>> ELSE <<cur>>)
  ELSE IF IsSpace(s[i])
       THEN (IF cur = <<>> THEN <<>> ELSE <<cur>>) \o FieldsFrom(s, i + 1, <<>>)
       ELSE FieldsFrom(s, i + 1, Append(cur, s[i]))
Fields(s) == FieldsFrom(s, 1, <<>>)

\* Simple case folding of the letters the model's inputs use.
Fold(c) ==
  CASE c = "T" -> "t" [] c = "R" -> "r" [] c = "U" -> "u" [] c = "E" -> "e"
    [] c = "F" -> "f" [] c = "A" -> "a" [] c = "L" -> "l" [] c = "S" -> "s"
    [] OTHER -> c
\* strings.EqualFold(a, b)
EqualFold(a, b) == Len(a) = Len(b) /\ \A i \in 1..Len(a) : Fold(a[i]) = Fold(b[i])

\* ------------------------------------------------------------------- Page

\* type Page struct (Path is the one path of the model's store).
MakePage(fm, mk, body) == [FrontMatter |-> fm, Mark |-> mk, Body |-> body]
\* &Page{Path: path}: nil map, zero rune, nil body.
ZeroPage == MakePage(NilMap, ZeroRune, <<>>)

\* getString with the empty default for a value of the wrong shape.
getStringDefault(p, key) ==
  IF Has(p.FrontMatter, key) /\ p.FrontMatter.kv[key].t = "string"
  THEN p.FrontMatter.kv[key].v
  ELSE <<>>

getString(p, key) ==
  IF Has(p.FrontMatter, key)
  THEN (IF p.FrontMatter.kv[key].t = "string"
        THEN p.FrontMatter.kv[key].v
        ELSE NoStringPrefix \o GoSyntax(p.FrontMatter.kv[key]))
  ELSE <<>>

Title(p) == getString(p, "title")
Description(p) == getString(p, "description")
Language(p) == getString(p, "language")

\* Date: the stored time.Time if there is one, else time.Now() (clock), formatted.
Date(p, clock) ==
  FormatDate(IF Has(p.FrontMatter, "date") /\ p.FrontMatter.kv["date"].t = "time"
             THEN p.FrontMatter.kv["date"].v
             ELSE clock)

\* Tags with a type switch on []string alone.
TagsNaive(p) ==
  IF Has(p.FrontMatter, "tags")
  THEN (IF p.FrontMatter.kv["tags"].t = "[]string"
        THEN p.FrontMatter.kv["tags"].v
        ELSE <<NoStringSlicePrefix \o GoSyntax(p.FrontMatter.kv["tags"])>>)
  ELSE <<>>

Tags(p) ==
  IF Has(p.FrontMatter, "tags")
  THEN (CASE p.FrontMatter.kv["tags"].t = "[]string" -> p.FrontMatter.kv["tags"].v
          [] p.FrontMatter.kv["tags"].t = "[]interface{}" ->
               [i \in 1..Len(p.FrontMatter.kv["tags"].v) |->
                  SprintfS(p.FrontMatter.kv["tags"].v[i])]
          [] OTHER -> <<NoStringSlicePrefix \o GoSyntax(p.FrontMatter.kv["tags"])>>)
  ELSE <<>>

\* Draft with false for a malformed value.
DraftFalseOnMalformed(p) ==
  IF Has(p.FrontMatter, "draft")
  THEN (IF p.FrontMatter.kv["draft"].t = "bool" THEN p.FrontMatter.kv["draft"].v ELSE FALSE)
  ELSE TRUE

Draft(p) ==
  IF Has(p.FrontMatter, "draft")
  THEN (IF p.FrontMatter.kv["draft"].t = "bool" THEN p.FrontMatter.kv["draft"].v ELSE TRUE)
  ELSE TRUE

toInterSlice(ss) == [i \in 1..Len(ss) |-> StringVal(ss[i])]

\* The setters, on a page whose map is not nil (a store into a nil map panics).
SetTitle(p, s) == [p EXCEPT !.FrontMatter = Store(@, "title", StringVal(s))]
SetDescription(p, s) == [p EXCEPT !.FrontMatter = Store(@, "description", StringVal(s))]
SetLanguage(p, s) == [p EXCEPT !.FrontMatter = Store(@, "language", StringVal(s))]
SetDate(p, d) ==
  IF ParseOk(d) THEN [p EXCEPT !.FrontMatter = Store(@, "date", ParseDate(d))] ELSE p
SetTags(p, s) ==
  [p EXCEPT !.FrontMatter =
     Store(@, "tags", IF p.Mark = "+" THEN InterVal(toInterSlice(Fields(s)))
                      ELSE StringsVal(Fields(s)))]
\* SetDraft with an exact comparison in place of EqualFold.
SetDraftExact(p, d) == [p EXCEPT !.FrontMatter = Store(@, "draft", BoolVal(d = TrueText))]

SetDraft(p, d) == [p EXCEPT !.FrontMatter = Store(@, "draft", BoolVal(EqualFold(d, TrueText)))]

\* ------------------------------------------------- package parser (codec)

B(ch) == [c |-> ch]
\* []byte(s)
Bytes(s) == [i \in 1..Len(s) |-> B(s[i])]
\* The payload lines that encode the mapping kv, their line terminators included.
Meta(kv) == [meta |-> kv]
IsMeta(b) == "meta" \in DOMAIN b

\* The delimiter line of Dash and Plus.
Delim(mk) == Bytes(<<mk, mk, mk, "\n">>)
DelimAt(raw, i, mk) == i + 3 <= Len(raw) /\ SubSeq(raw, i, i + 3) = Delim(mk)
LineStart(raw, i) == i = 1 \/ raw[i - 1] = B("\n") \/ IsMeta(raw[i - 1])
\* Where the closing delimiter line of a Dash or Plus block starts (0: nowhere).
CloseAt(raw, mk) ==
  LET at == {i \in 5..Len(raw) : LineStart(raw, i) /\ DelimAt(raw, i, mk)}
  IN IF at = {} THEN 0 ELSE CHOOSE i \in at : \A j \in at : i <= j
\* Where the object of a Brace block closes (0: nowhere).
BraceClose(raw) ==
  LET at == {i \in 2..Len(raw) : raw[i] = B("}")}
  IN IF at = {} THEN 0 ELSE CHOOSE i \in at : \A j \in at : i <= j
\* The end of a Brace block: its closing brace and a following newline if present.
BraceEnd(raw) ==
  LET e == BraceClose(raw)
  IN IF e > 0 /\ e < Len(raw) /\ raw[e + 1] = B("\n") THEN e + 1 ELSE e

\* parser.ReadFrom: the split into front matter (delimiters included) and content.
ReadFrom(raw) ==
  IF raw = <<>> \/ raw[1] \notin {B(mk) : mk \in Marks}
  THEN [err |-> "", fm |-> <<>>, content |-> raw]
  ELSE IF raw[1] = B("{")
  THEN LET e == BraceEnd(raw)
       IN IF e = 0
          THEN [err |-> "UnterminatedFrontMatter", fm |-> <<>>, content |-> <<>>]
          ELSE [err |-> "", fm |-> SubSeq(raw, 1, e), content |-> SubSeq(raw, e + 1, Len(raw))]
  ELSE LET e == IF DelimAt(raw, 1, raw[1].c) THEN CloseAt(raw, raw[1].c) ELSE 0
       IN IF e = 0
          THEN [err |-> "UnterminatedFrontMatter", fm |-> <<>>, content |-> <<>>]
          ELSE [err |-> "", fm |-> SubSeq(raw, 1, e + 3),
                content |-> SubSeq(raw, e + 4, Len(raw))]

\* The payload of a front-matter block: what lies strictly between its delimiters.
Payload(fm) ==
  IF fm[1] = B("{") THEN SubSeq(fm, 2, BraceClose(fm) - 1)
  ELSE SubSeq(fm, 5, Len(fm) - 4)

\* page.Metadata(): nil without front matter, else the decoded mapping or an error.
Metadata(fm) ==
  IF fm = <<>> THEN [err |-> "", md |-> NilMap]
  ELSE LET pl == Payload(fm)
       IN IF pl = <<>> THEN [err |-> "", md |-> EmptyMap]
          ELSE IF Len(pl) = 1 /\ IsMeta(pl[1]) THEN [err |-> "", md |-> MakeMap(pl[1].meta)]
          ELSE [err |-> "DecodeError", md |-> NilMap]

\* RFC 3339 text of a time.Time, the string form of a timestamp.
ISOText(tv) == FormatDate(tv) \o <<"T">> \o Pad2(tv.h) \o <<":", "0", "0", ":", "0", "0", "Z">>

\* What a value is once written in the format of mark mk: Brace has no native
\* timestamp, and no format keeps the element type of a sequence.
Repr(mk, x) ==
  CASE x.t = "time" /\ mk = "{" -> StringVal(ISOText(x.v))
    [] x.t = "[]string" -> InterVal(toInterSlice(x.v))
    [] OTHER -> x

\* parser.InterfaceToFrontMatter(in, mark): the delimited block, or an error when
\* mark is none of the three formats.
InterfaceToFrontMatter(fm, mk) ==
  IF mk \notin Marks THEN [err |-> "UnrepresentableValue", bytes |-> <<>>]
  ELSE IF mk = "{"
  THEN [err |-> "",
        bytes |-> <<B("{"), Meta([k \in DOMAIN fm.kv |-> Repr(mk, fm.kv[k])]), B("}"), B("\n")>>]
  ELSE [err |-> "",
        bytes |-> Delim(mk) \o <<Meta([k \in DOMAIN fm.kv |-> Repr(mk, fm.kv[k])])>> \o Delim(mk)]

\* ------------------------------------------------------ LoadPage and Save

NoFile == [exists |-> FALSE, data |-> <<>>]
FileOf(data) == [exists |-> TRUE, data |-> data]

mark(fm) == IF Len(fm) > 0 THEN fm[1].c ELSE "+"

\* LoadPage(path): [err, p]; p is the nil page when err is set.
LoadPage(f) ==
  IF ~f.exists THEN [err |-> "open", p |-> ZeroPage]
  ELSE LET pg == ReadFrom(f.data)
           md == Metadata(pg.fm)
       IN IF pg.err # "" THEN [err |-> pg.err, p |-> ZeroPage]
          ELSE IF md.err # "" THEN [err |-> "error parsing frontmatter", p |-> ZeroPage]
          ELSE IF md.md.nil THEN [err |-> "no frontmatter in file", p |-> ZeroPage]
          ELSE [err |-> "", p |-> MakePage(md.md, mark(pg.fm), pg.content)]

\* The bytes a failing Write can leave behind: a proper prefix, of at most
\* MaxPartial bytes.
Prefixes(b) == {SubSeq(b, 1, k) : k \in {j \in 0..MaxPartial : j < Len(b)}}

\* Save with its two writes in the wrong order.
SaveWithBodyFirst(p, f, mk) ==
  LET enc == InterfaceToFrontMatter(p.FrontMatter, mk)
  IN {[err |-> "unable to open or create page", file |-> f, mark |-> ""]}
     \cup
     (IF enc.err # ""
      THEN {[err |-> "unable to generate front matter", file |-> FileOf(<<>>), mark |-> mk]}
      ELSE {[err |-> "", file |-> FileOf(p.Body \o enc.bytes), mark |-> mk]})

\* What Save can return and leave behind when it hands mk to the encoder:
\* [err, file, mark] for each way its four steps (os.Create,
\* InterfaceToFrontMatter, Write, Write) can end; mark is the mark the encoder
\* was given, "" when it was not reached.  os.Create truncates the document.
SaveWith(p, f, mk) ==
  LET enc == InterfaceToFrontMatter(p.FrontMatter, mk)
  IN {[err |-> "unable to open or create page", file |-> f, mark |-> ""]}
     \cup
     (IF enc.err # ""
      THEN {[err |-> "unable to generate front matter", file |-> FileOf(<<>>), mark |-> mk]}
      ELSE {[err |-> "unable to write front matter", file |-> FileOf(w), mark |-> mk] :
              w \in Prefixes(enc.bytes)}
           \cup
           {[err |-> "unable to write content", file |-> FileOf(enc.bytes \o w), mark |-> mk] :
              w \in Prefixes(p.Body)}
           \cup
           {[err |-> "", file |-> FileOf(enc.bytes \o p.Body), mark |-> mk]})

\* Save with the default mark in place of the page's own.
SaveOutcomesDefaultMark(p, f) == SaveWith(p, f, "+")

\* Page.Save
SaveOutcomes(p, f) == SaveWith(p, f, p.Mark)

\* ------------------------------------------------------------ the inputs

BoundedSeqs(S, n) == UNION {[1..k -> S] : k \in 0..n}

DateA == <<"2", "0", "1", "5", "-", "0", "3", "-", "1", "4">>
DateLeap == <<"2", "0", "1", "6", "-", "0", "2", "-", "2", "9">>
DateNoLeap == <<"2", "0", "1", "5", "-", "0", "2", "-", "2", "9">>
DateShort == <<"2", "0", "1", "5", "-", "3", "-", "1", "4">>
Maybe == <<"m", "a", "y", "b", "e">>

TitleArgs == {<<>>, <<"t">>}
DescriptionArgs == {<<"d">>}
LanguageArgs == {<<"e", "n">>}
DateArgs == {DateLeap, DateNoLeap, DateShort}
TagsArgs ==
  BoundedSeqs({"a", " "}, MaxTagsLen) \cup {<<"b", " ", "a">>, <<"a", "\t", "b", "\n">>}
DraftArgs == {TrueText, <<"T", "r", "U", "E">>, FalseText, Maybe, <<"1">>, <<>>}

\* The form values of a save request (r.FormValue is "" for a missing field).
Forms ==
  [body : BoundedSeqs({"x"}, MaxBodyLen),
   draft : {TrueText, <<>>}, language : {<<"e", "n">>},
   date : {DateA, DateNoLeap}, title : {<<"t">>},
   tags : {<<"a", " ", "b">>}, description : {<<"d">>}]

\* Mappings as the three decoders return them.
WellFormed ==
  [k \in Keys |->
     CASE k = "title" -> StringVal(<<"a">>)
       [] k = "description" -> StringVal(<<"d">>)
       [] k = "language" -> StringVal(<<"d", "e">>)
       [] k = "draft" -> BoolVal(FALSE)
       [] k = "tags" -> StringsVal(<<<<"a">>, <<"b">>>>)
       [] k = "date" -> TimeVal(2015, 3, 14, 10)]
WrongShapes ==
  [k \in Keys |->
     CASE k = "title" -> IntVal(5)
       [] k = "description" -> BoolVal(TRUE)
       [] k = "language" -> StringsVal(<<<<"e", "n">>>>)
       [] k = "draft" -> StringVal(Maybe)
       [] k = "tags" -> StringVal(<<"a">>)
       [] k = "date" -> IntVal(20150314)]
FromBrace ==
  [k \in {"title", "draft", "tags", "date"} |->
     CASE k = "title" -> StringVal(<<"a">>)
       [] k = "draft" -> BoolVal(TRUE)
       [] k = "tags" -> InterVal(<<StringVal(<<"a">>), StringVal(<<"b">>)>>)
       [] k = "date" -> StringVal(ISOText([y |-> 2015, m |-> 3, d |-> 14, h |-> 10]))]
MixedTags == [k \in {"tags"} |-> InterVal(<<StringVal(<<"a">>), IntVal(5)>>)]

\* The pages the accessors are exercised on: each mapping under the mark it can
\* be decoded from, and the page of a path with no document.
ViewPages ==
  {MakePage(EmptyMap, "+", <<>>), MakePage(EmptyMap, "-", <<>>),
   MakePage(MakeMap(WellFormed), "+", Bytes(<<"x">>)),
   MakePage(MakeMap(WrongShapes), "-", Bytes(<<"x">>)),
   MakePage(MakeMap(FromBrace), "{", Bytes(<<"x">>)),
   MakePage(MakeMap(MixedTags), "+", <<>>),
   ZeroPage}

\* The documents the store can hold at start.
PlusDoc == Delim("+") \o <<Meta(WellFormed)>> \o Delim("+") \o Bytes(<<"x", "\n">>)
DashDoc == Delim("-") \o <<Meta(WrongShapes)>> \o Delim("-") \o Bytes(<<"-", "x">>)
BraceDoc == <<B("{"), Meta(FromBrace), B("}"), B("\n")>> \o Bytes(<<"x">>)
InitFiles ==
  {NoFile, FileOf(<<>>), FileOf(Bytes(<<"h", "i", "\n">>)),
   FileOf(PlusDoc), FileOf(DashDoc), FileOf(BraceDoc),
   FileOf(Delim("+") \o Delim("+")),
   FileOf(Delim("-") \o Bytes(<<"x", "\n">>))}

\* The readings of time.Now(): a first day and the days after it.
Clock0 == [y |-> 2026, m |-> 11, d |-> 1, h |-> 12]
Clocks == {[Clock0 EXCEPT !.d = @ + k] : k \in 0..MaxTicks}

NoLoad == [ok |-> FALSE, mark |-> ZeroRune, body |-> <<>>]
Hist0 == [load |-> NoLoad, saves |-> 0]
NoPage == [live |-> FALSE, p |-> ZeroPage]
Ret0 == [op |-> "", arg |-> <<>>, val |-> ""]

\* ------------------------------------------------------------ the actions

\* A run ends with its MaxSaves-th call of Save.
Running == hist.saves < MaxSaves

\* p, err := LoadPage(path)
LoadPageCall ==
  /\ Running
  /\ LET l == LoadPage(file)
     IN /\ page' = [live |-> l.err = "", p |-> l.p]
        /\ ret' = [op |-> "LoadPage", arg |-> <<>>, val |-> l.err]
        /\ hist' = [hist EXCEPT !.load = [ok |-> l.err = "", mark |-> l.p.Mark,
                                          body |-> l.p.Body]]
  /\ UNCHANGED file

\* p = &Page{Path: path}
NewPage ==
  /\ Running
  /\ page' = [live |-> TRUE, p |-> ZeroPage]
  /\ ret' = [op |-> "NewPage", arg |-> <<>>, val |-> ""]
  /\ hist' = [hist EXCEPT !.load = NoLoad]
  /\ UNCHANGED file

\* A setter call on the page in hand: the store into a nil map panics and the
\* page is lost with its goroutine; otherwise the page becomes q.
SetterCall(op, arg, q) ==
  /\ Running
  /\ page.live
  /\ IF page.p.FrontMatter.nil
     THEN /\ page' = NoPage
          /\ ret' = [op |-> op, arg |-> arg, val |-> "panic"]
          /\ hist' = [hist EXCEPT !.load = NoLoad]
     ELSE /\ page' = [live |-> TRUE, p |-> q]
          /\ ret' = [op |-> op, arg |-> arg, val |-> "ok"]
          /\ hist' = hist
  /\ UNCHANGED file

SetTitleCall(S) == \E s \in S : SetterCall("SetTitle", s, SetTitle(page.p, s))
SetDescriptionCall(S) == \E s \in S : SetterCall("SetDescription", s, SetDescription(page.p, s))
SetLanguageCall(S) == \E s \in S : SetterCall("SetLanguage", s, SetLanguage(page.p, s))
SetDateCall(S) == \E s \in S : SetterCall("SetDate", s, SetDate(page.p, s))
SetTagsCall(S) == \E s \in S : SetterCall("SetTags", s, SetTags(page.p, s))
SetDraftCall(S) == \E s \in S : SetterCall("SetDraft", s, SetDraft(page.p, s))

\* A getter call on the page in hand: ret holds what it returned.
GetterCall(op, arg, val) ==
  /\ page.live
  /\ ret' = [op |-> op, arg |-> arg, val |-> val]
  /\ UNCHANGED <<file, page, hist>>

TitleCall == GetterCall("Title", <<>>, Title(page.p))
DescriptionCall == GetterCall("Description", <<>>, Description(page.p))
LanguageCall == GetterCall("Language", <<>>, Language(page.p))
\* ret.arg is what time.Now() read during the call.
DateCall == \E clock \in Clocks : GetterCall("Date", clock, Date(page.p, clock))
TagsCall == GetterCall("Tags", <<>>, Tags(page.p))
DraftCall == GetterCall("Draft", <<>>, Draft(page.p))

\* err := p.Save(): ret.val is the error and the mark the encoder was given,
\* ret.arg the stored document before the call.
SaveCall ==
  /\ Running
  /\ page.live
  /\ \E o \in SaveOutcomes(page.p, file) :
       /\ file' = o.file
       /\ ret' = [op |-> "Save", arg |-> file, val |-> [err |-> o.err, mark |-> o.mark]]
  /\ hist' = [hist EXCEPT !.saves = @ + 1]
  /\ UNCHANGED page

\* The page saveHandler passes to Save: the loaded or the empty page, its Body
\* replaced and the six setters applied in the handler's order.
HandlerPage(p0, form) ==
  SetDescription(
    SetTags(
      SetTitle(
        SetDate(
          SetLanguage(SetDraft([p0 EXCEPT !.Body = Bytes(form.body)], form.draft),
                      form.language),
          form.date),
        form.title),
      form.tags),
    form.description)

\* saveHandler: ret.val says whether the page was loaded and with which mark,
\* what the store held before, whether Save was reached, with which page and
\* which mark for the encoder,
\* and how the request ended (the first setter's store into the nil map of the
\* empty page panics before Save is called).
saveHandler ==
  /\ Running
  /\ \E form \in Forms :
       LET l == LoadPage(file)
           p0 == IF l.err # "" THEN ZeroPage ELSE l.p
           p == HandlerPage(p0, form)
       IN IF p0.FrontMatter.nil
          THEN /\ ret' = [op |-> "saveHandler", arg |-> form,
                          val |-> [loaded |-> l.err = "", lmark |-> l.p.Mark, prev |-> file,
                                   saved |-> FALSE, p |-> p0, mark |-> "",
                                   resp |-> "panic"]]
               /\ UNCHANGED <<file, hist>>
          ELSE /\ \E o \in SaveOutcomes(p, file) :
                    /\ file' = o.file
                    /\ ret' = [op |-> "saveHandler", arg |-> form,
                               val |-> [loaded |-> l.err = "", lmark |-> l.p.Mark,
                                        prev |-> file, saved |-> TRUE, p |-> p,
                                        mark |-> o.mark,
                                        resp |-> IF o.err = "" THEN "redirect" ELSE "error"]]
               /\ hist' = [hist EXCEPT !.saves = @ + 1]
  /\ UNCHANGED page

\* editHandler and viewHandler: load, then render or redirect; the store is only read.
editHandler ==
  /\ Running
  /\ ret' = [op |-> "editHandler", arg |-> <<>>,
             val |-> [loaded |-> LoadPage(file).err = "", resp |-> "edit"]]
  /\ UNCHANGED <<file, page, hist>>

viewHandler ==
  /\ Running
  /\ LET l == LoadPage(file)
     IN ret' = [op |-> "viewHandler", arg |-> <<>>,
                val |-> [loaded |-> l.err = "",
                         resp |-> IF l.err = "" THEN "view" ELSE "redirect"]]
  /\ UNCHANGED <<file, page, hist>>

\* ------------------------------------------------------ the specifications

\* The server: the store, LoadPage, Save, the handlers, and a caller of the
\* setters between a load and a save.  SetDescription and SetLanguage are
\* SetTitle with another key: the caller uses them in SpecView, and here they
\* act inside saveHandler.
Init ==
  /\ file \in InitFiles
  /\ page = NoPage
  /\ ret = Ret0
  /\ hist = Hist0

Next ==
  \/ LoadPageCall
  \/ NewPage
  \/ SetTitleCall({<<"t">>})
  \/ SetDateCall({DateA, DateNoLeap})
  \/ SetTagsCall({<<"a", " ", "b">>})
  \/ SetDraftCall({TrueText})
  \/ SaveCall
  \/ saveHandler
  \/ editHandler
  \/ viewHandler

Spec == Init /\ [][Next]_vars

\* The typed view: the accessors on a page in hand.
InitView ==
  /\ file = NoFile
  /\ page \in {[live |-> TRUE, p |-> p] : p \in ViewPages}
  /\ ret = Ret0
  /\ hist = Hist0

NextView ==
  \/ SetTitleCall(TitleArgs)
  \/ SetDescriptionCall(DescriptionArgs)
  \/ SetLanguageCall(LanguageArgs)
  \/ SetDateCall(DateArgs)
  \/ SetTagsCall(TagsArgs)
  \/ SetDraftCall(DraftArgs)
  \/ TitleCall
  \/ DescriptionCall
  \/ LanguageCall
  \/ DateCall
  \/ TagsCall
  \/ DraftCall

SpecView == InitView /\ [][NextView]_vars

\* ------------------------------------------------------------- the claims

\* The stored document has no front matter: it is empty or starts with a byte
\* that is no mark.
NoFrontMatter(f) == f.exists /\ (f.data = <<>> \/ f.data[1] \notin {B(mk) : mk \in Marks})

\* C1: LoadPage of a stored document without front matter returns a page and no
\* error; the page's mapping is empty, its Body is the whole input and its Mark
\* is the default '+'.
C1_NoFrontMatterLoads ==
  (ret.op = "LoadPage" /\ NoFrontMatter(file)) =>
    /\ ret.val = ""
    /\ page.live
    /\ DOMAIN page.p.FrontMatter.kv = {}
    /\ page.p.Body = file.data
    /\ page.p.Mark = "+"

\* C2: a save request for a path whose page cannot be loaded ends with a redirect
\* or an error response after Save was called with Mark '+' and a mapping that
\* holds the submitted fields.
C2_SaveHandlerReachesSave ==
  (ret.op = "saveHandler" /\ ~ret.val.loaded) =>
    /\ ret.val.resp \in {"redirect", "error"}
    /\ ret.val.saved
    /\ ret.val.mark = "+"
    /\ Title(ret.val.p) = ret.arg.title
    /\ Description(ret.val.p) = ret.arg.description
    /\ Language(ret.val.p) = ret.arg.language

\* C3: the Mark of a loaded page is the first byte of the document's front
\* matter, one of the three marks; no setter call changes it; and Save, in a
\* caller's hands or in saveHandler, gives the encoder exactly that mark, so the
\* document it writes starts with it.
C3_FormatFidelity ==
  /\ (ret.op = "LoadPage" /\ ret.val = "") =>
       page.p.Mark \in Marks /\ file.data[1] = B(page.p.Mark)
  /\ (page.live /\ hist.load.ok) => page.p.Mark = hist.load.mark
  /\ (ret.op = "Save" /\ hist.load.ok /\ ret.val.mark # "") =>
       ret.val.mark = hist.load.mark
  /\ (ret.op = "Save" /\ hist.load.ok /\ ret.val.err = "") =>
       file.data[1] = B(hist.load.mark)
  /\ (ret.op = "saveHandler" /\ ret.val.loaded /\ ret.val.mark # "") =>
       ret.val.mark = ret.val.lmark /\ ret.val.lmark \in Marks

\* A Dash page was loaded, two setters changed its mapping, and Save wrote it
\* back as Dash.
C3_Witness ==
  /\ ret.op = "Save" /\ ret.val.err = "" /\ ret.val.mark = "-"
  /\ hist.load.ok /\ hist.load.mark = "-"
  /\ Title(page.p) = <<"t">>
  /\ Tags(page.p) = <<<<"a">>, <<"b">>>>
  /\ file.data[1] = B("-")

\* C4: the Body of a loaded page changed only by setters stays the content the
\* load returned, and a successful Save leaves exactly the encoded front matter
\* followed by those bytes.
C4_ContentImmutable ==
  /\ (page.live /\ hist.load.ok) => page.p.Body = hist.load.body
  /\ (ret.op = "Save" /\ hist.load.ok /\ ret.val.err = "") =>
       /\ file.exists
       /\ InterfaceToFrontMatter(page.p.FrontMatter, page.p.Mark).err = ""
       /\ file.data =
            InterfaceToFrontMatter(page.p.FrontMatter, page.p.Mark).bytes \o hist.load.body

\* A Plus page with content was loaded, its date and tags were set, and the
\* Save succeeded.
C4_Witness ==
  /\ ret.op = "Save" /\ ret.val.err = ""
  /\ hist.load.ok /\ hist.load.body = Bytes(<<"x", "\n">>)
  /\ Date(page.p, Clock0) = DateA
  /\ page.p.FrontMatter.kv["tags"].t = "[]interface{}"
  /\ SubSeq(file.data, Len(file.data) - 1, Len(file.data)) = Bytes(<<"x", "\n">>)

\* The stored document is the complete new document of page p.
CompleteDocument(p) ==
  /\ file.exists
  /\ InterfaceToFrontMatter(p.FrontMatter, p.Mark).err = ""
  /\ file.data = InterfaceToFrontMatter(p.FrontMatter, p.Mark).bytes \o p.Body

\* C9: after a call of Save, in a caller's hands or in saveHandler and however
\* it ended, the stored document is either what it was before the call or the
\* complete new document; it is never empty or partially written.
C9_FullRewriteOnly ==
  /\ ret.op = "Save" => (file = ret.arg \/ CompleteDocument(page.p))
  /\ (ret.op = "saveHandler" /\ ret.val.saved) =>
       (file = ret.val.prev \/ CompleteDocument(ret.val.p))

\* The accessor named by ret.op reads this key.
KeyOf(op) ==
  CASE op = "Title" -> "title" [] op = "Description" -> "description"
    [] op = "Language" -> "language" [] op = "Date" -> "date"
    [] op = "Tags" -> "tags" [] op = "Draft" -> "draft"
Stored(key) == page.p.FrontMatter.kv[key]
HasKind(key, kind) == Has(page.p.FrontMatter, key) /\ Stored(key).t = kind

\* C5: Draft() returns the stored value when 'draft' holds a boolean and true
\* when it is absent or holds anything else, and the call leaves the page as
\* it was.
C5_DraftTolerant ==
  /\ [](ret.op = "Draft" =>
          /\ ret.val \in BOOLEAN
          /\ HasKind("draft", "bool") => ret.val = Stored("draft").v
          /\ ~HasKind("draft", "bool") => ret.val = TRUE)
  /\ [][ret'.op = "Draft" => page' = page]_vars

\* Draft() was called on a mapping whose 'draft' is the string "maybe".
C5_Witness ==
  /\ ret.op = "Draft" /\ ret.val = TRUE
  /\ HasKind("draft", "string") /\ Stored("draft").v = Maybe

AllStrings(es) == \A i \in 1..Len(es) : es[i].t = "string"

\* C6: Tags() returns the stored list, element for element and in order, when
\* 'tags' is a native string sequence and when it is a generic sequence of
\* string scalars, and the empty sequence when 'tags' is absent.
C6_TagsSymmetry ==
  ret.op = "Tags" =>
    /\ ~Has(page.p.FrontMatter, "tags") => ret.val = <<>>
    /\ HasKind("tags", "[]string") => ret.val = Stored("tags").v
    /\ (HasKind("tags", "[]interface{}") /\ AllStrings(Stored("tags").v)) =>
         /\ Len(ret.val) = Len(Stored("tags").v)
         /\ \A i \in 1..Len(ret.val) : ret.val[i] = Stored("tags").v[i].v

\* Tags() was called on the generic sequence ["a", "b"] a Brace document decodes to.
C6_Witness ==
  /\ ret.op = "Tags" /\ ret.val = <<<<"a">>, <<"b">>>>
  /\ page.p.Mark = "{"
  /\ HasKind("tags", "[]interface{}")

\* C7 as claimed: Title(), Description() and Language() return the stored string,
\* and the empty string both when the key is absent and when it holds a value
\* of the wrong shape.
C7_GetOrDefault ==
  ret.op \in {"Title", "Description", "Language"} =>
    IF HasKind(KeyOf(ret.op), "string")
    THEN ret.val = Stored(KeyOf(ret.op)).v
    ELSE ret.val = <<>>

\* C7 as amended: they return the stored string, the empty string when the key
\* is absent, and for a value of the wrong shape the placeholder "no string: "
\* followed by the value in Go syntax ("no string: 5" for the integer 5).
C7_GetOrPlaceholder ==
  ret.op \in {"Title", "Description", "Language"} =>
    /\ HasKind(KeyOf(ret.op), "string") => ret.val = Stored(KeyOf(ret.op)).v
    /\ ~Has(page.p.FrontMatter, KeyOf(ret.op)) => ret.val = <<>>
    /\ (Has(page.p.FrontMatter, KeyOf(ret.op)) /\ ~HasKind(KeyOf(ret.op), "string")) =>
         /\ Len(ret.val) > Len(NoStringPrefix)
         /\ SubSeq(ret.val, 1, Len(NoStringPrefix)) = NoStringPrefix
         /\ Stored(KeyOf(ret.op)) = IntVal(5) => ret.val = NoStringPrefix \o <<"5">>
         /\ Stored(KeyOf(ret.op)) = BoolVal(TRUE) => ret.val = NoStringPrefix \o TrueText

\* Title() was called on a mapping whose 'title' is the integer 5.
C7_Witness ==
  /\ ret.op = "Title" /\ HasKind("title", "int")
  /\ ret.val = <<"n", "o", " ", "s", "t", "r", "i", "n", "g", ":", " ", "5">>

\* A string that starts with a well-formed calendar date, as ISO-8601 text does.
ISODate(x) == x.t = "string" /\ Len(x.v) >= 10 /\ ParseOk(SubSeq(x.v, 1, 10))

\* C8: Date() returns the calendar date of the stored value when it is a native
\* timestamp and when it is a well-formed ISO-8601 string, and the current date
\* only when 'date' is absent or malformed.
C8_DateCoercion ==
  ret.op = "Date" =>
    /\ HasKind("date", "time") => ret.val = FormatDate(Stored("date").v)
    /\ (Has(page.p.FrontMatter, "date") /\ ISODate(Stored("date"))) =>
         ret.val = SubSeq(Stored("date").v, 1, 10)
    /\ (~Has(page.p.FrontMatter, "date")
        \/ (~HasKind("date", "time") /\ ~ISODate(Stored("date")))) =>
         ret.val = FormatDate(ret.arg)

SetterOps == {"SetTitle", "SetDescription", "SetLanguage", "SetDate", "SetTags", "SetDraft"}
\* The setter named by op writes this key.
KeyOfSetter(op) ==
  CASE op = "SetTitle" -> "title" [] op = "SetDescription" -> "description"
    [] op = "SetLanguage" -> "language" [] op = "SetDate" -> "date"
    [] op = "SetTags" -> "tags" [] op = "SetDraft" -> "draft"
\* s is "true" in some mix of upper and lower case.
IsTrueAnyCase(s) ==
  /\ Len(s) = 4
  /\ s[1] \in {"t", "T"} /\ s[2] \in {"r", "R"} /\ s[3] \in {"u", "U"} /\ s[4] \in {"e", "E"}
\* Entry key of the mapping is the same before and after the step.
SameEntry(key) ==
  /\ Has(page'.p.FrontMatter, key) <=> Has(page.p.FrontMatter, key)
  /\ Has(page.p.FrontMatter, key) => page'.p.FrontMatter.kv[key] = page.p.FrontMatter.kv[key]

\* C10: on a page with a non-nil mapping, right after a setter call its getter
\* returns what was set (the string; true exactly for "true" in any case; the
\* whitespace-separated fields in order, kept as a generic sequence under Mark
\* '+' and as a native one otherwise; the date), and the call leaves Mark, Body
\* and every other entry of the mapping as they were, so that after any sequence
\* of calls each getter still returns what its own setter stored last; a SetDate
\* with a string that is no valid date leaves the whole page unchanged.
C10_SetterReadBack ==
  /\ []((ret.op \in SetterOps /\ ret.val = "ok") =>
          /\ ret.op = "SetTitle" => Title(page.p) = ret.arg
          /\ ret.op = "SetDescription" => Description(page.p) = ret.arg
          /\ ret.op = "SetLanguage" => Language(page.p) = ret.arg
          /\ ret.op = "SetDraft" => Draft(page.p) = IsTrueAnyCase(ret.arg)
          /\ ret.op = "SetTags" =>
               /\ Tags(page.p) = Fields(ret.arg)
               /\ ret.arg = <<"b", " ", "a">> => Tags(page.p) = <<<<"b">>, <<"a">>>>
               /\ ret.arg = <<"a", "\t", "b", "\n">> => Tags(page.p) = <<<<"a">>, <<"b">>>>
               /\ ret.arg = <<" ", "a", "a">> => Tags(page.p) = <<<<"a", "a">>>>
               /\ Stored("tags").t = (IF page.p.Mark = "+" THEN "[]interface{}" ELSE "[]string")
          /\ (ret.op = "SetDate" /\ ParseOk(ret.arg)) =>
               \A clock \in Clocks : Date(page.p, clock) = ret.arg)
  /\ [][(ret'.op \in SetterOps /\ ret'.val = "ok") =>
          /\ page'.p.Mark = page.p.Mark
          /\ page'.p.Body = page.p.Body
          /\ ~page'.p.FrontMatter.nil
          /\ \A key \in Keys \ {KeyOfSetter(ret'.op)} : SameEntry(key)
          /\ (ret'.op = "SetDate" /\ ~ParseOk(ret'.arg)) => page' = page]_vars

\* On a Plus page whose tags and title were set before, SetDraft("TrUE") was
\* called: all three getters return what their setters stored.
C10_Witness ==
  /\ ret.op = "SetDraft" /\ ret.val = "ok" /\ ret.arg = <<"T", "r", "U", "E">>
  /\ Draft(page.p) = TRUE
  /\ page.p.Mark = "+"
  /\ Title(page.p) = <<"t">>
  /\ HasKind("tags", "[]interface{}")
  /\ Tags(page.p) = <<<<"b">>, <<"a">>>>
  /\ Date(page.p, Clock0) = DateLeap
====
